---- MODULE Spec2Model ----
(***************************************************************************)
(* Model of scripts/main.js: the recursive XMLHttpRequest chain of         *)
(* leaflet.setAllControls, the layer mapping built by                      *)
(* leaflet.setFeatureLayers, the popups bound by leaflet.setGeoJson, and   *)
(* the click / mousemove / timer handlers registered by window.onload.     *)
(***************************************************************************)
EXTENDS Integers, Sequences, FiniteSets, TLC

(* ------------------------------ bounds --------------------------------- *)
MaxDesc == 2        \* longest descriptor list (the `objects` argument)
MaxPre == 2         \* longest pre-parsed feature list
MaxClicks == 2      \* number of map clicks explored
MaxFeatures == 2    \* features per document handed to setGeoJson
MaxCalls == 2       \* calls of setGeoJson on one document

(* ------------------------- values of the inputs ------------------------ *)
\* layer names; "2020" and "2021" are canonical array-index strings, which a
\* JavaScript object enumerates before its other keys, in ascending order
Names == {"Enemies", "2020", "2021"}
IndexKeys == {"2020", "2021"}
Attrs == {"offname", "name_ab"}
Srcs == {"json/EdmontonParks.geojson", "json/EdmontonRoads.geojson"}
Styles == {"green", "purple"}
\* the (attr, src, style) triples of the two configured sources
Configs ==
    { [attr |-> "offname", src |-> "json/EdmontonParks.geojson", style |-> "green"],
      [attr |-> "name_ab", src |-> "json/EdmontonRoads.geojson", style |-> "purple"] }

Null == "null"              \* the JavaScript value null
Undefined == "undefined"    \* the JavaScript value undefined (absent key)
PropValues == {"Hawrelak", "", Null, Undefined}

\* click / mouse positions, in thousandths of a degree
Locs == { [lat |-> 53534, lng |-> -113507], [lat |-> 53555, lng |-> -113495] }

NoMarker == [id |-> 0, latlng |-> [lat |-> 0, lng |-> 0]]    \* m.userInput undefined
NoHandler == 0 - 1                                           \* req.onload not set
HttpStatuses == {200, 404}

VARIABLES
    pc,                 \* "start" before window.onload has run, then "loaded"
    objects,            \* the descriptor array handed to setAllControls
    given,              \* the descriptor array as it was when handed over
    preparsedFeatures,  \* the pre-parsed feature list handed to setAllControls
    req,                \* the one XMLHttpRequest of setAllControls
    issued,             \* log of the retrievals sent: step and url
    settled,            \* log of the retrievals ended: step, outcome, response
    controls,           \* layer controls attached to the map, in order
    errors,             \* uncaught exceptions thrown by req.onload
    userInput,          \* m.userInput
    mapLayers,          \* markers placed on the map by the click handler
    nextId,             \* identity of the next L.marker object
    clicks,             \* the click events handled so far
    clickCoords,        \* innerHTML of #click
    mousePos,           \* innerHTML of #mouse-position
    className,          \* class tokens appended to #get-started
    loadTimer,          \* the 10 s timer of window.onload is pending
    hideTimers,         \* pending 500 ms timers of m.hide
    pjson, pattr, pstyle,   \* arguments of the setGeoJson calls
    presults                \* what the setGeoJson calls returned, in order

vars == << pc, objects, given, preparsedFeatures, req, issued, settled, controls,
           errors, userInput, mapLayers, nextId, clicks, clickCoords, mousePos,
           className, loadTimer, hideTimers, pjson, pattr, pstyle, presults >>

seqVars == << objects, given, preparsedFeatures, req, issued, settled, controls, errors >>
shellVars == << userInput, mapLayers, nextId, clicks, clickCoords, mousePos,
                className, loadTimer, hideTimers >>
parseVars == << pjson, pattr, pstyle, presults >>

(* ------------------------------ helpers -------------------------------- *)
RECURSIVE SeqsUpTo(_, _)
SeqsUpTo(S, n) ==
    IF n = 0 THEN { << >> }
    ELSE LET shorter == SeqsUpTo(S, n - 1)
         IN  shorter \cup { Append(s, x) : s \in { t \in shorter : Len(t) = n - 1 }, x \in S }

Range(s) == { s[k] : k \in DOMAIN s }

(* ------------------- descriptors and realized entries ------------------ *)
\* {name, attr, src, style}: one element of the `objects` argument
Descriptors ==
    { [name |-> n, attr |-> c.attr, src |-> c.src, style |-> c.style] :
        n \in Names, c \in Configs }

IsDescriptor(e) == "src" \in DOMAIN e
IsRealized(e) == "key" \in DOMAIN e

\* L.layerGroup(markers): every call returns a new object
MarkerGroup(k) == [type |-> "layerGroup", id |-> k]

\* a pre-parsed feature {name: layer}; the k-th one holds its own layer object
PreparsedLists ==
    { [k \in 1..Len(ns) |-> [key |-> ns[k], value |-> MarkerGroup(k)]] :
        ns \in SeqsUpTo(Names, MaxPre) }

\* L.tileLayer objects of setBasemapLayers
basemapTiles == << "Stadia_AlidadeSmooth", "osm" >>

(* ------------------------------ setGeoJson ----------------------------- *)
\* feature.properties is null (hasProperties = FALSE) or a mapping from
\* attribute to value, Undefined standing for an absent key
PropertyMaps == [Attrs -> PropValues]
NoProperties == [a \in Attrs |-> Undefined]
Features ==
    { [hasProperties |-> TRUE, properties |-> p] : p \in PropertyMaps }
    \cup { [hasProperties |-> FALSE, properties |-> NoProperties] }

\* feature.properties[labelAttr] throws a TypeError when properties is null
Throws(feature) == ~ feature.hasProperties

\* PopupText with a truthiness test in place of the comparison with null
PopupTextFalsy(feature, labelAttr) ==
    IF feature.properties[labelAttr] \in {Null, Undefined, ""}
    THEN "Unnamed"
    ELSE feature.properties[labelAttr]

\* the argument of layer.bindPopup in onEachFeature
PopupText(feature, labelAttr) ==
    IF feature.properties[labelAttr] \in {Null, Undefined}
    THEN "Unnamed"
    ELSE feature.properties[labelAttr]

\* setGeoJson throws when onEachFeature throws for some feature
setGeoJsonThrows(json) == \E k \in DOMAIN json.features : Throws(json.features[k])

\* the L.geoJSON layer: the document, the style, one popup per feature
setGeoJson(json, labelAttr, style) ==
    [ type |-> "geoJSON",
      data |-> json,
      style |-> style,
      labelAttr |-> labelAttr,
      popups |-> [k \in DOMAIN json.features |-> PopupText(json.features[k], labelAttr)] ]

(* ---------------------------- setFeatureLayers ------------------------- *)
\* numeric value of a canonical array-index key
KeyNum(k) == IF k = "2020" THEN 2020 ELSE 2021

\* Object.entries(obj): a realized or pre-parsed entry has one own key; a
\* descriptor still has its four configuration keys
Entries(obj) ==
    IF IsRealized(obj)
    THEN << [key |-> obj.key, value |-> obj.value] >>
    ELSE << [key |-> "name", value |-> [type |-> "string", text |-> obj.name]],
            [key |-> "attr", value |-> [type |-> "string", text |-> obj.attr]],
            [key |-> "src", value |-> [type |-> "string", text |-> obj.src]],
            [key |-> "style", value |-> [type |-> "style", text |-> obj.style]] >>

Keys(o) == { o[k].key : k \in DOMAIN o }

\* where a new key goes in the enumeration order of the object: array-index
\* keys ascending, then the other keys in insertion order
InsertAt(o, key) ==
    IF key \in IndexKeys
    THEN 1 + Cardinality({ k \in DOMAIN o : o[k].key \in IndexKeys /\ KeyNum(o[k].key) < KeyNum(key) })
    ELSE Len(o) + 1

\* PutKey leaving a key that is already set as it is
PutKeyKeepFirst(o, key, value) ==
    IF key \in Keys(o)
    THEN o
    ELSE LET at == InsertAt(o, key)
         IN  SubSeq(o, 1, at - 1) \o << [key |-> key, value |-> value] >> \o SubSeq(o, at, Len(o))

\* layersObject[key] = value, the object being the sequence of its own
\* properties in enumeration order
PutKey(o, key, value) ==
    IF key \in Keys(o)
    THEN [k \in DOMAIN o |-> IF o[k].key = key THEN [key |-> key, value |-> value] ELSE o[k]]
    ELSE LET at == InsertAt(o, key)
         IN  SubSeq(o, 1, at - 1) \o << [key |-> key, value |-> value] >> \o SubSeq(o, at, Len(o))

RECURSIVE PutAll(_, _)
PutAll(o, entries) ==
    IF entries = << >> THEN o
    ELSE PutAll(PutKey(o, Head(entries).key, Head(entries).value), Tail(entries))

RECURSIVE setFeatureLayersFrom(_, _)
setFeatureLayersFrom(layersObject, layerGroups) ==
    IF layerGroups = << >> THEN layersObject
    ELSE setFeatureLayersFrom(PutAll(layersObject, Entries(Head(layerGroups))), Tail(layerGroups))

setFeatureLayers(layerGroups) == setFeatureLayersFrom(<< >>, layerGroups)

\* obj[key] of a mapping
Get(o, key) == (CHOOSE e \in Range(o) : e.key = key).value

(* ------------------------------ the server ----------------------------- *)
Feature(offname, name_ab) ==
    [ hasProperties |-> TRUE,
      properties |-> [a \in Attrs |-> IF a = "offname" THEN offname ELSE name_ab] ]

\* a feature collection served at url
GoodDoc(url) ==
    [ from |-> url,
      features |-> << Feature("Hawrelak", Undefined), Feature(Null, "") >> ]

\* a feature collection one of whose features has "properties": null
NullPropsDoc(url) ==
    [ from |-> url,
      features |-> << Feature("Hawrelak", ""),
                      [hasProperties |-> FALSE, properties |-> NoProperties] >> ]

NoResponse == [text |-> "", json |-> [from |-> "", features |-> << >>]]

\* response bodies a server may send for url: text that is not JSON, or the
\* text of a document
ServerBodies(url) ==
    { [text |-> "garbage", json |-> [from |-> url, features |-> << >>]],
      [text |-> "json", json |-> GoodDoc(url)],
      [text |-> "json", json |-> NullPropsDoc(url)] }

JSONparseThrows(response) == response.text # "json"
JSONparse(response) == response.json

(* ----------------------------- setAllControls -------------------------- *)
NewRequest ==
    [url |-> "", inflight |-> FALSE, status |-> 0, response |-> NoResponse, onload |-> NoHandler]

\* objects[i].src, undefined once objects[i] is a realized entry
SrcOf(e) == IF IsDescriptor(e) THEN e.src ELSE Undefined

\* SequenceDone one step early
SequenceDoneEarly(i, objs) == i + 1 >= Len(objs)

\* i == objects.length
SequenceDone(i, objs) == i = Len(objs)

\* preparsedFeatures.forEach(pusher); objects.forEach(pusher)
Combine(pre, objs) == pre \o objs

\* Realize keying the entry by objects[i].attr
RealizeKeyedByAttr(objs, i, layer) ==
    [objs EXCEPT ![i + 1] = [key |-> objs[i + 1].attr, value |-> layer]]

\* Realize without the assignment objects[i] = leafletGeom
RealizeNothing(objs, i, layer) == objs

\* Realize assigning to objects[0] at every step
RealizeFirstSlot(objs, i, layer) ==
    [objs EXCEPT ![1] = [key |-> objs[i + 1].name, value |-> layer]]

\* leafletGeom[objects[i].name] = layer; objects[i] = leafletGeom
Realize(objs, i, layer) ==
    [objs EXCEPT ![i + 1] = [key |-> objs[i + 1].name, value |-> layer]]

\* ParseArgs reading the last descriptor whatever the step
ParseArgsLast(objs, i) == [attr |-> objs[Len(objs)].attr, style |-> objs[Len(objs)].style]

\* the arguments objects[i].attr, objects[i].style of the setGeoJson call
ParseArgs(objs, i) == [attr |-> objs[i + 1].attr, style |-> objs[i + 1].style]

\* the index handed to the next call of recursivexhttp
NextStep(i) == i + 1

\* Recursivexhttp with features aliasing preparsedFeatures, so that the
\* pushes of the completion branch land in the caller's list
RecursivexhttpAliased(i, r, objs) ==
    IF SequenceDone(i, objs)
    THEN /\ controls' = Append(controls,
                [tiles |-> basemapTiles, overlays |-> setFeatureLayers(Combine(preparsedFeatures, objs))])
         /\ req' = r
         /\ issued' = issued
         /\ preparsedFeatures' = Combine(preparsedFeatures, objs)
    ELSE /\ req' = [r EXCEPT !.url = SrcOf(objs[i + 1]), !.inflight = TRUE, !.status = 0,
                             !.response = NoResponse, !.onload = i]
         /\ issued' = Append(issued, [step |-> i, url |-> SrcOf(objs[i + 1])])
         /\ controls' = controls
         /\ preparsedFeatures' = preparsedFeatures

\* Recursivexhttp with req.send() left out
RecursivexhttpUnsent(i, r, objs) ==
    IF SequenceDone(i, objs)
    THEN /\ controls' = Append(controls,
                [tiles |-> basemapTiles, overlays |-> setFeatureLayers(Combine(preparsedFeatures, objs))])
         /\ req' = r
         /\ issued' = issued
         /\ preparsedFeatures' = preparsedFeatures
    ELSE /\ req' = [r EXCEPT !.url = SrcOf(objs[i + 1]), !.status = 0,
                             !.response = NoResponse, !.onload = i]
         /\ issued' = issued
         /\ controls' = controls
         /\ preparsedFeatures' = preparsedFeatures

\* recursivexhttp(i, req, objects), r and objs being the request and the
\* array as the caller left them
Recursivexhttp(i, r, objs) ==
    IF SequenceDone(i, objs)
    THEN /\ controls' = Append(controls,
                [tiles |-> basemapTiles, overlays |-> setFeatureLayers(Combine(preparsedFeatures, objs))])
         /\ req' = r
         /\ issued' = issued
         /\ preparsedFeatures' = preparsedFeatures
    ELSE /\ req' = [r EXCEPT !.url = SrcOf(objs[i + 1]), !.inflight = TRUE, !.status = 0,
                             !.response = NoResponse, !.onload = i]
         /\ issued' = Append(issued, [step |-> i, url |-> SrcOf(objs[i + 1])])
         /\ controls' = controls
         /\ preparsedFeatures' = preparsedFeatures

(* ------------------------------- MapShell ------------------------------ *)
Abs(x) == IF x < 0 THEN 0 - x ELSE x

RECURSIVE Pow10(_)
Pow10(n) == IF n = 0 THEN 1 ELSE 10 * Pow10(n - 1)

\* x.toFixed(decimalPlaces) of a coordinate given in thousandths: the sign and
\* the magnitude rounded half up, in units of 10^-decimalPlaces
ToFixed(x, decimalPlaces) ==
    LET unit == Pow10(3 - decimalPlaces)
    IN  [negative |-> x < 0, digits |-> (Abs(x) + unit \div 2) \div unit]

getEventCoordinates(latlng, decimalPlaces) ==
    << ToFixed(latlng.lat, decimalPlaces), ToFixed(latlng.lng, decimalPlaces) >>

NoText == << >>

\* HideClass without the test for 'd-none'
HideClassAlways(cn) == Append(cn, "slide-up")

\* the class change of m.hide(el)
HideClass(cn) == IF "d-none" \in Range(cn) THEN cn ELSE Append(cn, "slide-up")

\* RemovePrevious without the removal
RemovePreviousNever(layers, previous) == layers

\* if (m.userInput != undefined) map.removeLayer(m.userInput)
RemovePrevious(layers, previous) ==
    IF previous # NoMarker THEN layers \ {previous} ELSE layers

(* -------------------------------- Init --------------------------------- *)
InitShell ==
    /\ userInput = NoMarker
    /\ mapLayers = {}
    /\ nextId = 1
    /\ clicks = << >>
    /\ clickCoords = NoText
    /\ mousePos = NoText
    /\ className = << >>
    /\ loadTimer = FALSE
    /\ hideTimers = 0

InitParse ==
    /\ pjson = GoodDoc("")
    /\ pattr = "offname"
    /\ pstyle = "green"
    /\ presults = << >>

InitSequencerState ==
    /\ pc = "start"
    /\ req = NewRequest
    /\ issued = << >>
    /\ settled = << >>
    /\ controls = << >>
    /\ errors = << >>
    /\ given = objects

\* geoJSON and [marker] of window.onload, and the shorter configurations
\* obtained by dropping sources from the end or the marker layer
PageDescriptors ==
    << [name |-> "Edmonton Parks", attr |-> "offname",
        src |-> "json/EdmontonParks.geojson", style |-> "green"],
       [name |-> "Edmonton Roads", attr |-> "name_ab",
        src |-> "json/EdmontonRoads.geojson", style |-> "purple"] >>
PagePreparsed == << [key |-> "Enemies", value |-> MarkerGroup(1)] >>

\* the page as configured
Init ==
    /\ objects \in { SubSeq(PageDescriptors, 1, n) : n \in 0..Len(PageDescriptors) }
    /\ preparsedFeatures \in { << >>, PagePreparsed }
    /\ InitSequencerState
    /\ InitShell
    /\ InitParse

\* setAllControls on any descriptor list and any pre-parsed list
InitSequencer ==
    /\ objects \in SeqsUpTo(Descriptors, MaxDesc)
    /\ preparsedFeatures \in PreparsedLists
    /\ InitSequencerState
    /\ InitShell
    /\ InitParse

(* ------------------------------- actions ------------------------------- *)
\* window.onload: setAllControls, the two map listeners, the 10 s timer
WindowOnload ==
    /\ pc = "start"
    /\ pc' = "loaded"
    /\ Recursivexhttp(0, NewRequest, objects)
    /\ loadTimer' = TRUE
    /\ UNCHANGED << objects, given, settled, errors >>
    /\ UNCHANGED << userInput, mapLayers, nextId, clicks, clickCoords, mousePos,
                    className, hideTimers >>
    /\ UNCHANGED parseVars

\* ReqLoad with the exceptions of the handler caught and the chain resumed at
\* the next step
ReqLoadCatching(status, body) ==
    /\ pc = "loaded"
    /\ req.inflight
    /\ req.onload # NoHandler
    /\ LET i == req.onload
           r == [req EXCEPT !.inflight = FALSE, !.status = status, !.response = body]
       IN  /\ settled' = Append(settled, [step |-> i, outcome |-> "load", status |-> status,
                                          response |-> body])
           /\ IF JSONparseThrows(r.response) \/ setGeoJsonThrows(JSONparse(r.response))
              THEN /\ errors' = Append(errors, [step |-> i, error |-> "caught"])
                   /\ objects' = objects
                   /\ Recursivexhttp(NextStep(i), r, objects)
              ELSE /\ objects' = Realize(objects, i,
                           setGeoJson(JSONparse(r.response), ParseArgs(objects, i).attr,
                                      ParseArgs(objects, i).style))
                   /\ Recursivexhttp(NextStep(i), r, objects')
                   /\ errors' = errors
    /\ UNCHANGED << pc, given >>
    /\ UNCHANGED shellVars
    /\ UNCHANGED parseVars

\* the load event of the request: a response with any status has arrived
\* and req.onload runs
ReqLoad(status, body) ==
    /\ pc = "loaded"
    /\ req.inflight
    /\ req.onload # NoHandler
    /\ LET i == req.onload
           r == [req EXCEPT !.inflight = FALSE, !.status = status, !.response = body]
       IN  /\ settled' = Append(settled, [step |-> i, outcome |-> "load", status |-> status,
                                          response |-> body])
           /\ IF JSONparseThrows(r.response)
              THEN /\ errors' = Append(errors, [step |-> i, error |-> "SyntaxError"])
                   /\ req' = r
                   /\ UNCHANGED << objects, preparsedFeatures, issued, controls >>
              ELSE IF setGeoJsonThrows(JSONparse(r.response))
              THEN /\ errors' = Append(errors, [step |-> i, error |-> "TypeError"])
                   /\ req' = r
                   /\ UNCHANGED << objects, preparsedFeatures, issued, controls >>
              ELSE /\ objects' = Realize(objects, i,
                           setGeoJson(JSONparse(r.response), ParseArgs(objects, i).attr,
                                      ParseArgs(objects, i).style))
                   /\ Recursivexhttp(NextStep(i), r, objects')
                   /\ errors' = errors
    /\ UNCHANGED << pc, given >>
    /\ UNCHANGED shellVars
    /\ UNCHANGED parseVars

\* the error event of the request (transport failure): no listener is
\* registered for it
ReqError ==
    /\ pc = "loaded"
    /\ req.inflight
    /\ req' = [req EXCEPT !.inflight = FALSE]
    /\ settled' = Append(settled, [step |-> req.onload, outcome |-> "error", status |-> 0,
                                   response |-> NoResponse])
    /\ UNCHANGED << pc, objects, given, preparsedFeatures, issued, controls, errors >>
    /\ UNCHANGED shellVars
    /\ UNCHANGED parseVars

\* Click keeping the marker in the list handed to setAllControls as well
ClickSharesList(latlng) ==
    /\ pc = "loaded"
    /\ Len(clicks) < MaxClicks
    /\ className' = HideClass(className)
    /\ hideTimers' = hideTimers + 1
    /\ clickCoords' = getEventCoordinates(latlng, 2)
    /\ LET marker == [id |-> nextId, latlng |-> latlng]
       IN  /\ mapLayers' = RemovePrevious(mapLayers, userInput) \cup {marker}
           /\ userInput' = marker
           /\ preparsedFeatures' = Append(preparsedFeatures,
                  [key |-> "Possible Enemy Location", value |-> MarkerGroup(nextId)])
    /\ nextId' = nextId + 1
    /\ clicks' = Append(clicks, latlng)
    /\ UNCHANGED << pc, mousePos, loadTimer >>
    /\ UNCHANGED << objects, given, req, issued, settled, controls, errors >>
    /\ UNCHANGED parseVars

\* map.on('click')
Click(latlng) ==
    /\ pc = "loaded"
    /\ Len(clicks) < MaxClicks
    /\ className' = HideClass(className)
    /\ hideTimers' = hideTimers + 1
    /\ clickCoords' = getEventCoordinates(latlng, 2)
    /\ LET marker == [id |-> nextId, latlng |-> latlng]
       IN  /\ mapLayers' = RemovePrevious(mapLayers, userInput) \cup {marker}
           /\ userInput' = marker
    /\ nextId' = nextId + 1
    /\ clicks' = Append(clicks, latlng)
    /\ UNCHANGED << pc, mousePos, loadTimer >>
    /\ UNCHANGED seqVars
    /\ UNCHANGED parseVars

\* map.on('mousemove')
MouseMove(latlng) ==
    /\ pc = "loaded"
    /\ mousePos' = getEventCoordinates(latlng, 2)
    /\ UNCHANGED << pc, userInput, mapLayers, nextId, clicks, clickCoords, className,
                    loadTimer, hideTimers >>
    /\ UNCHANGED seqVars
    /\ UNCHANGED parseVars

\* LoadTimer with a callback that does nothing
LoadTimerIdle ==
    /\ loadTimer
    /\ loadTimer' = FALSE
    /\ UNCHANGED << pc, userInput, mapLayers, nextId, clicks, clickCoords, mousePos,
                    className, hideTimers >>
    /\ UNCHANGED seqVars
    /\ UNCHANGED parseVars

\* the 10 s timer of window.onload: m.hide(welcomeMsg)
LoadTimer ==
    /\ loadTimer
    /\ loadTimer' = FALSE
    /\ className' = HideClass(className)
    /\ hideTimers' = hideTimers + 1
    /\ UNCHANGED << pc, userInput, mapLayers, nextId, clicks, clickCoords, mousePos >>
    /\ UNCHANGED seqVars
    /\ UNCHANGED parseVars

\* a 500 ms timer of m.hide: el.className += ' d-none'
HideTimer ==
    /\ hideTimers > 0
    /\ hideTimers' = hideTimers - 1
    /\ className' = Append(className, "d-none")
    /\ UNCHANGED << pc, userInput, mapLayers, nextId, clicks, clickCoords, mousePos, loadTimer >>
    /\ UNCHANGED seqVars
    /\ UNCHANGED parseVars

Next ==
    \/ WindowOnload
    \/ \E status \in HttpStatuses : \E body \in ServerBodies(req.url) : ReqLoad(status, body)
    \/ ReqError
    \/ \E latlng \in Locs : Click(latlng)
    \/ \E latlng \in Locs : MouseMove(latlng)
    \/ LoadTimer
    \/ HideTimer

Spec == Init /\ [][Next]_vars

\* the page with the browser's scheduling: window.onload runs, and a timer
\* that was set fires
SpecTimers ==
    /\ Init
    /\ [][Next]_vars
    /\ WF_vars(WindowOnload)
    /\ WF_vars(LoadTimer)
    /\ WF_vars(HideTimer)

\* setGeoJson as a function of its arguments: any document of at most
\* MaxFeatures features, any label attribute, any style
Documents == { [from |-> "document", features |-> fs] : fs \in SeqsUpTo(Features, MaxFeatures) }

InitSetGeoJson ==
    /\ objects = << >>
    /\ preparsedFeatures = << >>
    /\ InitSequencerState
    /\ InitShell
    /\ pjson \in Documents
    /\ pattr \in Attrs
    /\ pstyle \in Styles
    /\ presults = << >>

\* leaflet.setGeoJson(pjson, pattr, pstyle)
CallSetGeoJson ==
    /\ Len(presults) < MaxCalls
    /\ presults' = Append(presults,
            IF setGeoJsonThrows(pjson)
            THEN [threw |-> TRUE, layer |-> setGeoJson(NoResponse.json, pattr, pstyle)]
            ELSE [threw |-> FALSE, layer |-> setGeoJson(pjson, pattr, pstyle)])
    /\ UNCHANGED << pc, pjson, pattr, pstyle >>
    /\ UNCHANGED seqVars
    /\ UNCHANGED shellVars

NextSetGeoJson == CallSetGeoJson

SpecSetGeoJson == InitSetGeoJson /\ [][NextSetGeoJson]_vars

\* the request chain alone: the listeners and timers of the page leave
\* objects, preparsedFeatures, req, issued, controls and errors unchanged
NextSequencer ==
    \/ WindowOnload
    \/ \E status \in HttpStatuses : \E body \in ServerBodies(req.url) : ReqLoad(status, body)
    \/ ReqError

SpecSequencer == InitSequencer /\ [][NextSequencer]_vars

\* the request chain with a server that answers every retrieval with status
\* 200 and the document of the url; the browser runs window.onload and
\* delivers each load event
NextAnswered ==
    \/ WindowOnload
    \/ ReqLoad(200, [text |-> "json", json |-> GoodDoc(req.url)])

\* any descriptor list, with or without the marker layer of the page
InitAnswered ==
    /\ objects \in SeqsUpTo(Descriptors, MaxDesc)
    /\ preparsedFeatures \in { << >>, PagePreparsed }
    /\ InitSequencerState
    /\ InitShell
    /\ InitParse

SpecAnswered ==
    /\ InitAnswered
    /\ [][NextAnswered]_vars
    /\ WF_vars(WindowOnload)
    /\ WF_vars(ReqLoad(200, [text |-> "json", json |-> GoodDoc(req.url)]))

(* ------------------------------ properties ----------------------------- *)
AllRealized == \A k \in DOMAIN objects : IsRealized(objects[k])

\* the name-to-layer pairs of a mapping or of a list of entries
Pairs(o) == { << o[k].key, o[k].value >> : k \in DOMAIN o }

\* the names of the combined list: pre-parsed entries, then descriptors
CombinedNames == [k \in DOMAIN preparsedFeatures |-> preparsedFeatures[k].key]
                 \o [k \in DOMAIN given |-> given[k].name]

Distinct(names) == \A p, q \in DOMAIN names : p # q => names[p] # names[q]

\* step i failed: its handler threw, or its retrieval ended with the error event
Failed(i) ==
    \/ \E k \in DOMAIN errors : errors[k].step = i
    \/ \E k \in DOMAIN settled : settled[k].step = i /\ settled[k].outcome = "error"

\* C1: with a non-empty descriptor list the layer control is attached at most
\* once, and only when every element of the array is a realized entry
C1_CompletesOnceAllRealized ==
    Len(objects) > 0 =>
        /\ Len(controls) <= 1
        /\ (controls # << >> => AllRealized)

C1_Witness == Len(objects) >= 2 /\ Len(controls) = 1 /\ AllRealized

\* C2: retrievals are sent in index order, the retrieval of step n is sent
\* only after step n-1 was answered and its array element replaced, and at
\* most one retrieval is unanswered at any time
C2_OneRetrievalAtATime ==
    /\ Len(issued) - Len(settled) \in {0, 1}
    /\ req.inflight <=> (Len(issued) - Len(settled) = 1)
    /\ \A n \in DOMAIN issued :
          /\ issued[n].step = n - 1
          /\ n > 1 => /\ settled[n - 1].step = n - 2
                      /\ settled[n - 1].outcome = "load"
                      /\ IsRealized(objects[n - 1])

C2_Witness == Len(issued) = 2 /\ req.inflight /\ IsRealized(objects[1])

\* C3: once step i has failed (transport failure, or an exception of the
\* handler while parsing), no retrieval of a later step is ever on the log
\* and no layer control is ever attached
C3_FailureHalts ==
    \A i \in 0..(Len(objects) - 1) :
        Failed(i) => /\ controls = << >>
                     /\ \A n \in DOMAIN issued : issued[n].step <= i

C3_Witness == Len(objects) = 2 /\ Failed(0) /\ errors # << >>

\* C4: with an empty descriptor list the control is attached by
\* window.onload itself, no retrieval is sent, and the mapping holds exactly
\* the name-to-layer pairs of the pre-parsed entries
C4_EmptyListCompletesWithPreparsed ==
    (pc = "loaded" /\ given = << >>) =>
        /\ Len(controls) = 1
        /\ issued = << >>
        /\ Pairs(controls[1].overlays) = Pairs(preparsedFeatures)

\* position of a name in the enumeration order of a mapping
Position(o, key) == CHOOSE k \in DOMAIN o : o[k].key = key

\* C5: in the mapping every pre-parsed name comes before every descriptor
\* name, and the descriptor names come in input order (stated for input
\* names that are all different)
C5_MappingInInputOrder ==
    (controls # << >> /\ Distinct(CombinedNames)) =>
        LET overlays == controls[1].overlays
        IN  /\ \A p \in DOMAIN preparsedFeatures : \A d \in DOMAIN given :
                  Position(overlays, preparsedFeatures[p].key) < Position(overlays, given[d].name)
            /\ \A j, k \in DOMAIN given :
                  j < k => Position(overlays, given[j].name) < Position(overlays, given[k].name)

\* C6: the keys of the mapping are unique and every input entry's layer is in
\* the mapping under its name, unless a configuration error was raised
C6_NoSilentOverwrite ==
    controls # << >> =>
        LET overlays == controls[1].overlays
        IN  /\ \A p, q \in DOMAIN overlays : p # q => overlays[p].key # overlays[q].key
            /\ \/ \E k \in DOMAIN errors : errors[k].error = "ConfigurationError"
               \/ \A k \in DOMAIN objects :
                     /\ IsRealized(objects[k])
                     /\ << objects[k].key, objects[k].value >> \in Pairs(overlays)
            /\ \/ \E k \in DOMAIN errors : errors[k].error = "ConfigurationError"
               \/ Pairs(preparsedFeatures) \subseteq Pairs(overlays)

\* C7: with descriptor names all different, the mapping pairs each
\* descriptor's name with the layer parsed from the response to that
\* descriptor's own source, with its own label attribute and style
C7_OwnSourceAttrStyle ==
    (controls # << >> /\ Distinct([k \in DOMAIN given |-> given[k].name])) =>
        \A k \in DOMAIN given :
            /\ issued[k].url = given[k].src
            /\ settled[k].response.json.from = given[k].src
            /\ given[k].name \in Keys(controls[1].overlays)
            /\ Get(controls[1].overlays, given[k].name)
                 = setGeoJson(JSONparse(settled[k].response), given[k].attr, given[k].style)

C7_Witness ==
    /\ Len(controls) = 1
    /\ Len(given) = 2
    /\ given[1].name # given[2].name
    /\ given[1].attr # given[2].attr

\* C8: the array keeps its length; a step changes an element only from a
\* descriptor to the realized entry of the same name, so a realized entry is
\* never written again; and on completion every element has been replaced
C8_ReplacedInPlaceOnce ==
    /\ [](controls # << >> => AllRealized)
    /\ [][ /\ Len(objects') = Len(objects)
           /\ \A k \in DOMAIN objects :
                 objects'[k] # objects[k] =>
                     /\ IsDescriptor(objects[k])
                     /\ IsRealized(objects'[k])
                     /\ objects'[k].key = objects[k].name ]_vars

C8_Witness == Len(objects) = 2 /\ IsRealized(objects[1]) /\ IsDescriptor(objects[2])

\* C9: at most one click marker is on the map; after at least one click
\* exactly one is, it is m.userInput, and it stands at the last click
C9_OneTransientMarker ==
    /\ Cardinality(mapLayers) <= 1
    /\ clicks = << >> => mapLayers = {}
    /\ clicks # << >> => /\ mapLayers = {userInput}
                         /\ userInput.latlng = clicks[Len(clicks)]

C9_Witness == Len(clicks) = 2 /\ clicks[1] # clicks[2] /\ Cardinality(mapLayers) = 1

\* C10: a layer returned by setGeoJson has one popup per feature, reading
\* properties[labelAttr] when that value is present and not null, and
\* "Unnamed" when it is absent or null
C10_PopupLabelOrUnnamed ==
    \A n \in DOMAIN presults :
        ~ presults[n].threw =>
            /\ DOMAIN presults[n].layer.popups = DOMAIN pjson.features
            /\ \A k \in DOMAIN pjson.features :
                  LET value == pjson.features[k].properties[pattr]
                  IN  presults[n].layer.popups[k]
                        = IF value = Undefined \/ value = Null THEN "Unnamed" ELSE value

C10_Witness ==
    /\ presults # << >>
    /\ ~ presults[1].threw
    /\ \E k, l \in DOMAIN pjson.features :
          /\ pjson.features[k].properties[pattr] = Undefined
          /\ pjson.features[l].properties[pattr] = ""

\* one retrieval per descriptor has been sent, in index order
OneRetrievalEach ==
    /\ Len(issued) = Len(given)
    /\ \A n \in DOMAIN issued : issued[n] = [step |-> n - 1, url |-> given[n].src]

\* C12: when every retrieval is answered by a response that parses, the
\* chain reaches its completion step: the layer control is attached, once
\* and for good, after one retrieval per descriptor sent in index order
C12_EventuallyAttachedOnce ==
    /\ <>[](Len(controls) = 1 /\ OneRetrievalEach /\ ~ req.inflight)
    /\ [](Len(controls) <= 1)
    /\ [](controls # << >> => OneRetrievalEach)

C12_Witness == Len(controls) = 1 /\ Len(given) = 2 /\ Len(issued) = 2 /\ Len(settled) = 2

\* a response that does not count as a successful, parsable one
Unsuccessful(answer) ==
    \/ answer.outcome = "error"
    \/ answer.status # 200
    \/ JSONparseThrows(answer.response)
    \/ setGeoJsonThrows(JSONparse(answer.response))

\* C13: an element is realized only after a successful response to its own
\* retrieval; after a transport failure, an error response or a body that
\* fails to parse at step i, objects[i] is still the descriptor, the elements
\* before it are realized and nothing more happens
C13_OnlySuccessRealizes ==
    /\ \A k \in DOMAIN objects :
          IsRealized(objects[k]) =>
              /\ k \in DOMAIN settled
              /\ settled[k].step = k - 1
              /\ ~ Unsuccessful(settled[k])
    /\ \A k \in DOMAIN settled :
          Unsuccessful(settled[k]) =>
              LET i == settled[k].step
              IN  /\ objects[i + 1] = given[i + 1]
                  /\ \A j \in 1..i : IsRealized(objects[j])
                  /\ ~ req.inflight
                  /\ Len(issued) = i + 1
                  /\ controls = << >>

\* the realized entry of descriptor k, from the response to its retrieval
ExpectedEntry(k) ==
    [ key |-> given[k].name,
      value |-> setGeoJson(JSONparse(settled[k].response), given[k].attr, given[k].style) ]

\* C14: the mapping handed to the control is determined by the inputs and
\* the responses alone; a click, a mouse move or a timer leaves the state of
\* the request chain unchanged, and a step of the chain leaves the click
\* marker unchanged
C14_UserEventsDoNotInterfere ==
    /\ [](controls # << >> =>
            controls[1].overlays
              = setFeatureLayers(preparsedFeatures \o [k \in DOMAIN given |-> ExpectedEntry(k)]))
    /\ [][ ( \/ << userInput, mapLayers, nextId, clicks, clickCoords, mousePos,
                   className, hideTimers >>'
                 # << userInput, mapLayers, nextId, clicks, clickCoords, mousePos,
                      className, hideTimers >>
             \/ (loadTimer /\ ~ loadTimer') )
           => UNCHANGED seqVars ]_vars
    /\ [][ seqVars' # seqVars => UNCHANGED << userInput, mapLayers >> ]_vars

C14_Witness ==
    /\ Len(issued) = 2
    /\ IsRealized(objects[1])
    /\ req.inflight
    /\ clicks # << >>
    /\ userInput \in mapLayers

\* C15: no step changes the pre-parsed list or any of its entries
C15_PreparsedNeverMutated == [][preparsedFeatures' = preparsedFeatures]_vars

C15_Witness == Len(controls) = 1 /\ Len(preparsedFeatures) = 2 /\ Len(objects) = 2

\* the last entry of a list that carries a name
LastIndex(entries, name) ==
    CHOOSE k \in DOMAIN entries :
        /\ entries[k].key = name
        /\ \A j \in DOMAIN entries : entries[j].key = name => j <= k

\* C16: the mapping has exactly the names of the combined list, one entry
\* per name, holding the layer of the last entry of that name
C16_LastWriteWins ==
    controls # << >> =>
        LET combined == preparsedFeatures \o objects
            overlays == controls[1].overlays
        IN  /\ Keys(overlays) = { combined[k].key : k \in DOMAIN combined }
            /\ \A name \in Keys(overlays) :
                  /\ Cardinality({ k \in DOMAIN overlays : overlays[k].key = name }) = 1
                  /\ Get(overlays, name) = combined[LastIndex(combined, name)].value

C16_Witness ==
    /\ controls # << >>
    /\ LET combined == preparsedFeatures \o objects
       IN  /\ \E j, k \in DOMAIN combined :
                 j < k /\ combined[j].key = combined[k].key /\ combined[j].value # combined[k].value
           /\ Cardinality(Keys(controls[1].overlays)) >= 2

\* number of times a class token was appended
Count(cn, token) == Cardinality({ k \in DOMAIN cn : cn[k] = token })

Hidden == "d-none" \in Range(className)

\* C17: the 10 s timer is set by window.onload and fires once, never to be
\* set again, and the onboarding element ends up hidden in every run
C17_OnboardingHiddenOnce ==
    /\ <>[]Hidden
    /\ <>(pc = "loaded" /\ ~ loadTimer)
    /\ [][ loadTimer' # loadTimer =>
             \/ pc = "start" /\ pc' = "loaded" /\ loadTimer'
             \/ loadTimer /\ ~ loadTimer' /\ hideTimers' = hideTimers + 1 ]_vars

C17_Witness ==
    /\ Hidden
    /\ pc = "loaded"
    /\ ~ loadTimer
    /\ clicks = << >>
    /\ req.inflight

\* C18: while the response of step i is awaited, the elements before i are
\* realized entries under their original names and the elements from i on
\* are the descriptors as given; the step index goes up by one at a time and
\* stays below the length of the array
C18_SplitAtStep ==
    /\ [](req.inflight =>
            /\ \A k \in 1..req.onload :
                  IsRealized(objects[k]) /\ objects[k].key = given[k].name
            /\ \A k \in (req.onload + 1)..Len(objects) : objects[k] = given[k])
    /\ [](req.onload < Len(objects))
    /\ [][req'.onload # req.onload => req'.onload = req.onload + 1]_vars

C18_Witness == req.inflight /\ req.onload = 1 /\ Len(objects) = 2

\* C19: once 'd-none' is among the classes it stays, and no later call of
\* m.hide appends 'slide-up'
C19_StaysHidden ==
    [][ Hidden =>
          /\ Hidden'
          /\ Count(className', "slide-up") = Count(className, "slide-up") ]_vars

\* hidden, and m.hide was called more often than 'slide-up' was appended
C19_Witness ==
    /\ Hidden
    /\ Count(className, "slide-up") < Count(className, "d-none") + hideTimers

====
